---- MODULE Spec2Model ----
(***************************************************************************)
(* Model of mysten-network's transport server builder (server.rs):         *)
(* ServerBuilder::from_config, ServerBuilder::bind, Server::serve,         *)
(* Server::take_cancel_handle, the health reporter handles and the tower   *)
(* middleware stack that gates every request.                              *)
(***************************************************************************)
EXTENDS Integers, Sequences, FiniteSets, TLC

(***************************************************************************)
(* Bounds of the model.                                                    *)
(***************************************************************************)
MaxAddrLen == 3      \* longest multiaddr given to bind
MaxPort == 2         \* tcp ports are 0..MaxPort, 0 asks for an ephemeral port
MaxLimit == 2        \* largest global_concurrency_limit drawn by Init
MaxRequests == 2     \* requests issued against one server
MaxConns == 2        \* client connections
MaxTakes == 2        \* calls of take_cancel_handle on one server
MaxHandles == 2      \* health reporter handles held by the application
NumStores == 2       \* allocations able to hold a health status map
AddrLen == 1         \* AccountAddress::LENGTH, scaled down
MaxN == 2            \* array lengths N of [u8; N] are 0..MaxN
MaxVecLen == 3       \* longest byte sequence given to or decoded by a codec

(***************************************************************************)
(* Multiaddr: an ordered sequence of protocol segments.  A segment is a    *)
(* record [p |-> protocol name, v |-> value]; names, ips and paths are     *)
(* abstracted to 0, a tcp segment carries its port.                        *)
(***************************************************************************)
Seg(p, v) == [p |-> p, v |-> v]

TcpSegments == {Seg("Tcp", n) : n \in 0..MaxPort}

Segments ==
    {Seg("Dns", 0), Seg("Ip4", 0), Seg("Ip6", 0), Seg("Unix", 0),
     Seg("Http", 0), Seg("Https", 0), Seg("Udp", 0)} \cup TcpSegments

Addresses == UNION {[1..n -> Segments] : n \in 0..MaxAddrLen}

NoSeg == Seg("", 0)

NoListener == [kind |-> "none", port |-> 0]

(***************************************************************************)
(* crate::multiaddr parsers.  Each checks the whole shape of the address   *)
(* (family segment, Tcp(port), trailing http or https marker, end).        *)
(***************************************************************************)
IsHttpMarker(seg) == seg.p \in {"Http", "Https"}

parse_tcp_family(addr, family) ==
    IF /\ Len(addr) = 3
       /\ addr[1].p = family
       /\ addr[2].p = "Tcp"
       /\ IsHttpMarker(addr[3])
    THEN [ok |-> TRUE, port |-> addr[2].v]
    ELSE [ok |-> FALSE, port |-> 0]

parse_dns(addr) == parse_tcp_family(addr, "Dns")

parse_ip4(addr) == parse_tcp_family(addr, "Ip4")

parse_ip6(addr) == parse_tcp_family(addr, "Ip6")

parse_unix(addr) ==
    IF /\ Len(addr) = 2
       /\ addr[1].p = "Unix"
       /\ IsHttpMarker(addr[2])
    THEN [ok |-> TRUE, port |-> 0]
    ELSE [ok |-> FALSE, port |-> 0]

(***************************************************************************)
(* What the operating system answers to a listen request: os.ok says       *)
(* whether the bind/listen call succeeds, os.port is the port the kernel   *)
(* hands out when port 0 was requested.                                    *)
(***************************************************************************)
OsAnswers == [ok : BOOLEAN, port : 1..MaxPort]

\* tcp_listener: TcpListener::bind(address), then listener.local_addr()
tcp_listener(port, os) ==
    IF os.ok
    THEN [ok |-> TRUE, port |-> IF port = 0 THEN os.port ELSE port]
    ELSE [ok |-> FALSE, port |-> 0]

PanicAddr == <<Seg("panic", 0)>>

\* Multiaddr::replace(1, ..) with the closure of update_tcp_port_in_multiaddr;
\* index 1 of the source is the second segment.
update_tcp_port_in_multiaddr_skip_replace(addr, port) == addr

update_tcp_port_in_multiaddr(addr, port) ==
    IF Len(addr) >= 2 /\ addr[2].p = "Tcp"
    THEN [addr EXCEPT ![2] = Seg("Tcp", port)]
    ELSE PanicAddr

BindErr(msg, seg) ==
    [ok |-> FALSE, msg |-> msg, seg |-> seg,
     local_addr |-> <<>>, listener |-> NoListener]

BindOk(local_addr, listener) ==
    [ok |-> TRUE, msg |-> "", seg |-> NoSeg,
     local_addr |-> local_addr, listener |-> listener]

tcp_listener_and_update_multiaddr(addr, port, os) ==
    LET l == tcp_listener(port, os) IN
    IF ~l.ok
    THEN BindErr("io error", NoSeg)
    ELSE BindOk(update_tcp_port_in_multiaddr(addr, l.port),
                [kind |-> "tcp", port |-> l.port])

BindTcpArm_listen_before_parse(addr, parsed, os) ==
    IF ~parsed.ok
    THEN [BindErr("parse error", NoSeg) EXCEPT
             !.listener = [kind |-> "tcp", port |-> os.port]]
    ELSE tcp_listener_and_update_multiaddr(addr, parsed.port, os)

\* the arm of bind's match for Dns, Ip4 and Ip6: parse_*(addr)? comes first
BindTcpArm(addr, parsed, os) ==
    IF ~parsed.ok
    THEN BindErr("parse error", NoSeg)
    ELSE tcp_listener_and_update_multiaddr(addr, parsed.port, os)

\* the #[cfg(unix)] arm of bind's match
BindUnixArm(addr, os) ==
    IF ~parse_unix(addr).ok
    THEN BindErr("parse error", NoSeg)
    ELSE IF ~os.ok
         THEN BindErr("io error", NoSeg)
         ELSE BindOk(addr, [kind |-> "unix", port |-> 0])

BindDispatch_unsupported_as_dns(addr, unix, os) ==
    IF Len(addr) = 0
    THEN BindErr("malformed addr", NoSeg)
    ELSE IF addr[1].p = "Ip4" THEN BindTcpArm(addr, parse_ip4(addr), os)
    ELSE IF addr[1].p = "Ip6" THEN BindTcpArm(addr, parse_ip6(addr), os)
    ELSE IF addr[1].p = "Unix" /\ unix THEN BindUnixArm(addr, os)
    ELSE IF Len(addr) = 3 /\ addr[2].p = "Tcp" /\ IsHttpMarker(addr[3])
         THEN tcp_listener_and_update_multiaddr(addr, addr[2].v, os)
         ELSE BindErr("parse error", NoSeg)

\* the match on iter.next() in bind; unix is cfg(unix) of the build
BindDispatch(addr, unix, os) ==
    IF Len(addr) = 0
    THEN BindErr("malformed addr", NoSeg)
    ELSE IF addr[1].p = "Dns" THEN BindTcpArm(addr, parse_dns(addr), os)
    ELSE IF addr[1].p = "Ip4" THEN BindTcpArm(addr, parse_ip4(addr), os)
    ELSE IF addr[1].p = "Ip6" THEN BindTcpArm(addr, parse_ip6(addr), os)
    ELSE IF addr[1].p = "Unix" /\ unix THEN BindUnixArm(addr, os)
    ELSE BindErr("unsupported protocol", addr[1])

(***************************************************************************)
(* Config: Option fields are records [some, v].                            *)
(***************************************************************************)
None == [some |-> FALSE, v |-> 0]

Some(x) == [some |-> TRUE, v |-> x]

NoneBool == [some |-> FALSE, v |-> FALSE]

Configs ==
    [global_concurrency_limit : {None} \cup {Some(n) : n \in 1..MaxLimit},
     load_shed : {NoneBool, Some(FALSE), Some(TRUE)}]

\* Config::new(): every knob is None
DefaultConfig == [global_concurrency_limit |-> None, load_shed |-> NoneBool]

(***************************************************************************)
(* The middleware stack, written outer-to-inner.  ServiceBuilder::layer(l) *)
(* builds Stack::new(l, previous), whose Layer impl applies l to the       *)
(* service first and previous around it: each added layer sits inside the  *)
(* ones added before it.                                                   *)
(***************************************************************************)
ServiceBuilder_layer(stack, l) == Append(stack, l)

option_layer_always_present(stack, present, l) ==
    ServiceBuilder_layer(stack, l)

\* option_layer: Either::A(layer) when configured, Either::B(Identity) else
option_layer(stack, present, l) ==
    ServiceBuilder_layer(stack, IF present THEN l ELSE "Identity")

\* config.load_shed.unwrap_or_default()
LoadShedOn(cfg) == cfg.load_shed.some /\ cfg.load_shed.v

\* the layer handed to builder.layer(..) by from_config
FromConfigLayers(cfg) ==
    option_layer(
        option_layer(<<>>, cfg.global_concurrency_limit.some,
                     "GlobalConcurrencyLimit"),
        LoadShedOn(cfg), "LoadShed")

\* GlobalConcurrencyLimitLayer::new(max): one semaphore of max permits
InitialPermits(cfg) ==
    IF cfg.global_concurrency_limit.some
    THEN cfg.global_concurrency_limit.v
    ELSE 0

SemOf_per_connection(c) == c

\* every connection's service is built from the one layer value and so uses
\* the layer's single semaphore
SemOf(c) == 1

(***************************************************************************)
(* One pass of a request through the stack (poll_ready, then call), given  *)
(* the free permits of the semaphore.  pending: poll_ready is Pending;     *)
(* acquire: a permit is taken; shed: the call is answered UNAVAILABLE.     *)
(***************************************************************************)
RECURSIVE Gate(_, _, _)
Gate(stack, i, free) ==
    IF i > Len(stack)
    THEN [pending |-> FALSE, acquire |-> FALSE, shed |-> FALSE]
    ELSE LET inner == Gate(stack, i + 1, free) IN
         IF stack[i] = "GlobalConcurrencyLimit"
         THEN IF free = 0
              THEN [pending |-> TRUE, acquire |-> FALSE, shed |-> FALSE]
              ELSE [inner EXCEPT !.acquire = TRUE]
         ELSE IF stack[i] = "LoadShed"
         THEN IF inner.pending
              THEN [pending |-> FALSE, acquire |-> inner.acquire,
                    shed |-> TRUE]
              ELSE inner
         ELSE inner

(***************************************************************************)
(* Health reporter: tonic_health::server::health_reporter() allocates one  *)
(* status map and returns a reporter and a service that both point at it.  *)
(***************************************************************************)
Names == {"", "svc"}

InitialStatus == [n \in Names |-> IF n = "" THEN "Serving" ELSE "Absent"]

HealthReporter_clone_detached(h) == [store |-> (h.store % NumStores) + 1]

\* HealthReporter::clone: the clone shares the Arc of the original
HealthReporter_clone(h) == h

\* what Health.Check answers for a status map entry
CheckAnswer(st) == IF st = "Absent" THEN "ServiceUnknown" ELSE st

NoCheck == [name |-> "", status |-> "none", expect |-> "none"]

(***************************************************************************)
(* sui_serde.rs: the serde_as adaptors.  A serializer or deserializer is   *)
(* its is_human_readable flag and the token it writes or holds: a string   *)
(* (a sequence of characters) or a byte string.  A codec that asks the     *)
(* deserializer for the other kind of token gets the deserializer's own    *)
(* "invalid type" error.                                                   *)
(***************************************************************************)
Chars == {"0", "a", "x"}

ByteVals == {0, 10, 160, 170}

MaxStrLen == 2 * MaxVecLen

Strs == UNION {[1..n -> Chars] : n \in 0..MaxStrLen}

ByteSeqs == UNION {[1..n -> ByteVals] : n \in 0..MaxVecLen}

StrTok(str) == [kind |-> "str", str |-> str, bytes |-> <<>>]

BytesTok(bytes) == [kind |-> "bytes", str |-> <<>>, bytes |-> bytes]

NoTok == [kind |-> "none", str |-> <<>>, bytes |-> <<>>]

Tokens == {StrTok(str) : str \in Strs} \cup {BytesTok(b) : b \in ByteSeqs}

NoErr == [raised |-> "", prefixed |-> FALSE, text |-> "", len |-> 0, n |-> 0]

\* Error::custom(msg): the message as it is
Error_custom(raised, text, len, n) ==
    [raised |-> raised, prefixed |-> FALSE, text |-> text, len |-> len,
     n |-> n]

\* to_custom_error: "byte deserialization failed, cause by: {:?}"
to_custom_error(raised, text) ==
    [raised |-> raised, prefixed |-> TRUE, text |-> text, len |-> 0, n |-> 0]

DeOk(val) == [ok |-> TRUE, val |-> val, err |-> NoErr, by |-> ""]

DeErr(err) == [ok |-> FALSE, val |-> <<>>, err |-> err, by |-> ""]

\* the deserializer holds a token of another type than the one asked for
InvalidType == DeErr(Error_custom("deserializer", "invalid type", 0, 0))

(***************************************************************************)
(* Hex, as the hex crate does it: lowercase on encode, either case on      *)
(* decode.                                                                 *)
(***************************************************************************)
HexDigits ==
    <<"0", "1", "2", "3", "4", "5", "6", "7",
      "8", "9", "a", "b", "c", "d", "e", "f">>

UpperHexDigits ==
    <<"0", "1", "2", "3", "4", "5", "6", "7",
      "8", "9", "A", "B", "C", "D", "E", "F">>

IsHexChar(c) ==
    \E i \in 1..16 : HexDigits[i] = c \/ UpperHexDigits[i] = c

NibbleOf(c) ==
    (CHOOSE i \in 1..16 : HexDigits[i] = c \/ UpperHexDigits[i] = c) - 1

HexEncodeByte_low_nibble_first(b) ==
    <<HexDigits[(b % 16) + 1], HexDigits[(b \div 16) + 1]>>

HexEncodeByte(b) == <<HexDigits[(b \div 16) + 1], HexDigits[(b % 16) + 1]>>

RECURSIVE HexEncode(_)
HexEncode(bytes) ==
    IF bytes = <<>>
    THEN <<>>
    ELSE HexEncodeByte(Head(bytes)) \o HexEncode(Tail(bytes))

\* hex::decode: odd length and non-hex characters are errors
HexDecode(str) ==
    IF Len(str) % 2 # 0
    THEN [ok |-> FALSE, bytes |-> <<>>, text |-> "OddLength"]
    ELSE IF \E i \in 1..Len(str) : ~IsHexChar(str[i])
    THEN [ok |-> FALSE, bytes |-> <<>>, text |-> "InvalidHexCharacter"]
    ELSE [ok |-> TRUE,
          bytes |-> [i \in 1..(Len(str) \div 2) |->
                        16 * NibbleOf(str[2 * i - 1]) + NibbleOf(str[2 * i])],
          text |-> ""]

\* str::starts_with("0x")
StartsWith0x(str) == Len(str) >= 2 /\ str[1] = "0" /\ str[2] = "x"

Zeros(n) == [i \in 1..n |-> "0"]

\* fastcrypto Hex::decode: an optional "0x" is stripped first
Hex_decode(str) ==
    HexDecode(IF StartsWith0x(str) THEN SubSeq(str, 3, Len(str)) ELSE str)

\* AccountAddress::from_hex: <[u8; LENGTH]>::from_hex(hex)
AccountAddress_from_hex(str) ==
    LET d == HexDecode(str) IN
    IF d.ok /\ Len(d.bytes) = AddrLen
    THEN [ok |-> TRUE, bytes |-> d.bytes, text |-> ""]
    ELSE [ok |-> FALSE, bytes |-> <<>>, text |-> "AccountAddressParseError"]

AccountAddress_from_hex_literal_unpadded(str) ==
    IF ~StartsWith0x(str)
    THEN [ok |-> FALSE, bytes |-> <<>>, text |-> "AccountAddressParseError"]
    ELSE AccountAddress_from_hex(SubSeq(str, 3, Len(str)))

\* AccountAddress::from_hex_literal: needs the "0x", and pads digits
\* shorter than 2 * LENGTH with leading zeros
AccountAddress_from_hex_literal(str) ==
    IF ~StartsWith0x(str)
    THEN [ok |-> FALSE, bytes |-> <<>>, text |-> "AccountAddressParseError"]
    ELSE LET digits == SubSeq(str, 3, Len(str)) IN
         IF Len(digits) < 2 * AddrLen
         THEN AccountAddress_from_hex(
                  Zeros(2 * AddrLen - Len(digits)) \o digits)
         ELSE AccountAddress_from_hex(digits)

\* AccountAddress: TryFrom<Vec<u8>>
AccountAddress_try_from(bytes) ==
    IF Len(bytes) = AddrLen
    THEN [ok |-> TRUE, bytes |-> bytes, text |-> ""]
    ELSE [ok |-> FALSE, bytes |-> <<>>, text |-> "AccountAddressParseError"]

(***************************************************************************)
(* The adaptors, named as they are written in a serde_as attribute.  The   *)
(* target type of HexObjectId and of TryFromVec is AccountAddress, that of *)
(* ToArray is [u8; N], that of Readable<Hex, Bytes> is Vec<u8>.            *)
(***************************************************************************)
Adaptors ==
    {"HexObjectId", "TryFromVec<Bytes>", "ToArray<Hex>", "ToArray<Bytes>",
     "Readable<Hex, Bytes>", "Readable<HexObjectId, TryFromVec<Bytes>>"}

Kind(a) ==
    CASE a \in {"Hex", "Bytes", "HexObjectId"} -> a
      [] a = "TryFromVec<Bytes>" -> "TryFromVec"
      [] a \in {"ToArray<Hex>", "ToArray<Bytes>"} -> "ToArray"
      [] OTHER -> "Readable"

\* the first type parameter: V of TryFromVec<V> and ToArray<V>, H of Readable
First(a) ==
    CASE a \in {"TryFromVec<Bytes>", "ToArray<Bytes>"} -> "Bytes"
      [] a \in {"ToArray<Hex>", "Readable<Hex, Bytes>"} -> "Hex"
      [] a = "Readable<HexObjectId, TryFromVec<Bytes>>" -> "HexObjectId"
      [] OTHER -> ""

\* the second type parameter: R of Readable<H, R>
Second(a) ==
    CASE a = "Readable<Hex, Bytes>" -> "Bytes"
      [] a = "Readable<HexObjectId, TryFromVec<Bytes>>" -> "TryFromVec<Bytes>"
      [] OTHER -> ""

\* the values of the adaptor's target type
ValuesOf(a, n) ==
    CASE Kind(a) = "ToArray" -> [1..n -> ByteVals]
      [] a = "Readable<Hex, Bytes>" -> ByteSeqs
      [] OTHER -> [1..AddrLen -> ByteVals]

Readable_serialize_delegate(human) == IF human THEN "H" ELSE "R"

Readable_deserialize_delegate_swapped(human) == IF human THEN "R" ELSE "H"

Readable_deserialize_delegate(human) == IF human THEN "H" ELSE "R"

RECURSIVE serialize_as(_, _, _)
serialize_as(a, value, human) ==
    CASE Kind(a) = "Hex" -> [tok |-> StrTok(HexEncode(value)), by |-> ""]
      [] Kind(a) = "Bytes" -> [tok |-> BytesTok(value), by |-> ""]
      [] Kind(a) = "HexObjectId" -> serialize_as("Hex", value, human)
      [] Kind(a) \in {"TryFromVec", "ToArray"} ->
            serialize_as(First(a), value, human)
      [] Kind(a) = "Readable" ->
            LET d == Readable_serialize_delegate(human) IN
            [tok |-> serialize_as(IF d = "H" THEN First(a) ELSE Second(a),
                                  value, human).tok,
             by |-> d]

HexObjectId_map_err_custom(text) == Error_custom("HexObjectId", text, 0, 0)

HexObjectId_map_err(text) == to_custom_error("HexObjectId", text)

ToArray_length_differs_only_shorter(len, n) == len < n

ToArray_length_differs(len, n) == len # n

RECURSIVE deserialize_as(_, _, _, _)
deserialize_as(a, tok, human, n) ==
    CASE Kind(a) = "Hex" ->
            IF tok.kind # "str"
            THEN InvalidType
            ELSE LET d == Hex_decode(tok.str) IN
                 IF d.ok
                 THEN DeOk(d.bytes)
                 ELSE DeErr(Error_custom("Hex", d.text, 0, 0))
      [] Kind(a) = "Bytes" ->
            IF tok.kind # "bytes" THEN InvalidType ELSE DeOk(tok.bytes)
      [] Kind(a) = "HexObjectId" ->
            IF tok.kind # "str"
            THEN InvalidType
            ELSE LET s == tok.str
                     r == IF StartsWith0x(s)
                          THEN AccountAddress_from_hex_literal(s)
                          ELSE AccountAddress_from_hex(s)
                 IN IF r.ok
                    THEN DeOk(r.bytes)
                    ELSE DeErr(HexObjectId_map_err(r.text))
      [] Kind(a) = "TryFromVec" ->
            LET v == deserialize_as(First(a), tok, human, n) IN
            IF ~v.ok
            THEN v
            ELSE LET t == AccountAddress_try_from(v.val) IN
                 IF t.ok
                 THEN DeOk(t.bytes)
                 ELSE DeErr(Error_custom("TryFromVec", t.text, 0, 0))
      [] Kind(a) = "ToArray" ->
            LET value == deserialize_as(First(a), tok, human, n) IN
            IF ~value.ok
            THEN value
            ELSE IF ToArray_length_differs(Len(value.val), n)
            THEN DeErr(Error_custom("ToArray", "invalid array length",
                                    Len(value.val), n))
            ELSE DeOk(SubSeq(value.val, 1, n))
      [] Kind(a) = "Readable" ->
            LET d == Readable_deserialize_delegate(human)
                r == deserialize_as(IF d = "H" THEN First(a) ELSE Second(a),
                                    tok, human, n)
            IN [r EXCEPT !.by = d]

NoOut == [ok |-> FALSE, val |-> <<>>, err |-> NoErr, by |-> ""]

VARIABLES
    config,            \* the Config given to from_config
    cfg_unix,          \* cfg(unix) of the build
    layers,            \* the middleware stack, outer-to-inner
    phase,             \* Built, BindFailed, Bound, Running, Draining, Done, Failed
    bindAddr,          \* the address the caller gives to bind
    bindError,         \* the error bind returned: [msg, seg]
    local_addr,        \* Server.local_addr
    listener,          \* the listener opened by bind
    cancel_handle,     \* Server.cancel_handle is Some
    channel,           \* the oneshot channel: none, open, sent, closed
    callerSender,      \* the caller owns the oneshot sender
    sendResult,        \* what Sender::send returned: none, Ok, Err
    sentIn,            \* the phase the server was in when send was called
    takeLog,           \* the values returned by take_cancel_handle, in order
    serveResult,       \* what serve returned: none, Ok, Err
    rstate,            \* per request: idle, waiting, running, served, rejected
    rconn,             \* per request at the semaphore: its connection, else 0
    holds,             \* per request: it holds a semaphore permit
    permits,           \* free permits per semaphore
    stores,            \* the health status maps
    builder_reporter,  \* ServerBuilder.health_reporter
    server_reporter,   \* Server.health_reporter
    health_service,    \* the health service registered on the router
    handles,           \* reporter handles held by the application
    lastSet,           \* the statuses most recently set, and by which handle
    lastCheck,         \* the most recent Health.Check and its answer
    sAdaptor,          \* the adaptor of the serde_as field
    sHuman,            \* is_human_readable of the serializer and deserializer
    sN,                \* N of the target [u8; N] of ToArray
    sMode,             \* off, roundtrip (a value is given), decode (a token)
    sPc,               \* off, value, token, done
    sValue,            \* the value given to serialize_as
    sTok,              \* the token written by the serializer, or given
    sBy,               \* the codec Readable delegated to in serialize_as
    sOut               \* what deserialize_as returned

bindVars == <<phase, bindAddr, bindError, local_addr, listener>>

cancelVars == <<cancel_handle, channel, callerSender, sendResult, sentIn,
                takeLog>>

reqVars == <<rstate, rconn, holds, permits>>

healthVars == <<stores, builder_reporter, server_reporter, health_service,
                handles, lastSet, lastCheck>>

constVars == <<config, cfg_unix, layers>>

serdeVars == <<sAdaptor, sHuman, sN, sMode, sPc, sValue, sTok, sBy, sOut>>

vars == <<constVars, bindVars, cancelVars, serveResult, reqVars, healthVars,
          serdeVars>>

Requests == 1..MaxRequests

Conns == 1..MaxConns

NoBindError == [msg |-> "", seg |-> NoSeg]

(***************************************************************************)
(* The state after ServerBuilder::from_config(config).                     *)
(***************************************************************************)
ServerInit ==
    /\ config \in Configs
    /\ cfg_unix \in BOOLEAN
    /\ layers = FromConfigLayers(config)
    /\ phase = "Built"
    /\ bindAddr \in Addresses
    /\ bindError = NoBindError
    /\ local_addr = <<>>
    /\ listener = NoListener
    /\ cancel_handle = FALSE
    /\ channel = "none"
    /\ callerSender = FALSE
    /\ sendResult = "none"
    /\ sentIn = "none"
    /\ takeLog = <<>>
    /\ serveResult = "none"
    /\ rstate = [r \in Requests |-> "idle"]
    /\ rconn = [r \in Requests |-> 0]
    /\ holds = [r \in Requests |-> FALSE]
    /\ permits = [s \in Conns |-> InitialPermits(config)]
    /\ stores = [s \in 1..NumStores |-> InitialStatus]
    /\ builder_reporter = [store |-> 1]
    /\ server_reporter = [store |-> 1]
    /\ health_service = [store |-> 1]
    /\ handles = <<>>
    /\ lastSet = [status |-> InitialStatus, by |-> "none"]
    /\ lastCheck = NoCheck

\* no serde_as field is being encoded or decoded
SerdeOff ==
    /\ sAdaptor = "" /\ sHuman = FALSE /\ sN = 0
    /\ sMode = "off" /\ sPc = "off"
    /\ sValue = <<>> /\ sTok = NoTok /\ sBy = "" /\ sOut = NoOut

Init == ServerInit /\ SerdeOff

\* a value of the target type is given to serialize_as, or a token is given
\* to deserialize_as
SerdeInputs ==
    /\ sAdaptor \in Adaptors
    /\ sHuman \in BOOLEAN
    /\ sN \in IF Kind(sAdaptor) = "ToArray" THEN 0..MaxN ELSE {0}
    /\ sBy = "" /\ sOut = NoOut
    /\ \/ /\ sMode = "roundtrip" /\ sPc = "value"
          /\ sValue \in ValuesOf(sAdaptor, sN)
          /\ sTok = NoTok
       \/ /\ sMode = "decode" /\ sPc = "token"
          /\ sValue = <<>>
          /\ sTok \in Tokens

(***************************************************************************)
(* SerializeAs::serialize_as and DeserializeAs::deserialize_as of the      *)
(* field's adaptor.                                                        *)
(***************************************************************************)
Serialize ==
    /\ sPc = "value"
    /\ LET s == serialize_as(sAdaptor, sValue, sHuman) IN
       /\ sTok' = s.tok
       /\ sBy' = s.by
    /\ sPc' = "token"
    /\ UNCHANGED <<sAdaptor, sHuman, sN, sMode, sValue, sOut>>
    /\ UNCHANGED <<constVars, bindVars, cancelVars, serveResult, reqVars,
                   healthVars>>

Deserialize ==
    /\ sPc = "token"
    /\ sOut' = deserialize_as(sAdaptor, sTok, sHuman, sN)
    /\ sPc' = "done"
    /\ UNCHANGED <<sAdaptor, sHuman, sN, sMode, sValue, sTok, sBy>>
    /\ UNCHANGED <<constVars, bindVars, cancelVars, serveResult, reqVars,
                   healthVars>>

(***************************************************************************)
(* ServerBuilder::bind(addr)                                               *)
(***************************************************************************)
Bind(os) ==
    /\ phase = "Built"
    /\ LET res == BindDispatch(bindAddr, cfg_unix, os) IN
       /\ listener' = res.listener
       /\ IF res.ok
          THEN /\ phase' = "Bound"
               /\ bindError' = NoBindError
               /\ local_addr' = res.local_addr
               /\ cancel_handle' = TRUE
               /\ channel' = "open"
               /\ server_reporter' = builder_reporter
          ELSE /\ phase' = "BindFailed"
               /\ bindError' = [msg |-> res.msg, seg |-> res.seg]
               /\ UNCHANGED <<local_addr, cancel_handle, channel,
                              server_reporter>>
    /\ UNCHANGED <<serdeVars, constVars, bindAddr, callerSender, sendResult, sentIn,
                   takeLog, serveResult, reqVars, stores, builder_reporter, health_service, handles,
                   lastSet, lastCheck>>

(***************************************************************************)
(* Server::take_cancel_handle: self.cancel_handle.take().  It borrows the  *)
(* server mutably, so it can only be called before serve consumes it.      *)
(***************************************************************************)
TakeResult_no_take(handle) == [returned |-> handle, left |-> handle]

\* Option::take: returns the value and leaves None behind
TakeResult(handle) == [returned |-> handle, left |-> FALSE]

take_cancel_handle ==
    /\ phase = "Bound"
    /\ Len(takeLog) < MaxTakes
    /\ LET t == TakeResult(cancel_handle) IN
       /\ takeLog' = Append(takeLog, IF t.returned THEN "Some" ELSE "None")
       /\ cancel_handle' = t.left
       /\ callerSender' = (callerSender \/ t.returned)
    /\ UNCHANGED <<serdeVars, constVars, bindVars, channel, sendResult, sentIn,
                   serveResult, reqVars, healthVars>>

\* the receiver lives inside the serving future
ReceiverAlive == phase \in {"Bound", "Running", "Draining"}

SendStores_only_for_a_polled_receiver(ph) == ph # "Bound"

\* tokio::sync::oneshot: a sent value is kept in the channel until the
\* receiver is polled, whenever that first happens
SendStores(ph) == TRUE

\* oneshot::Sender::send(()) by the caller; it consumes the sender
SendCancel ==
    /\ callerSender
    /\ callerSender' = FALSE
    /\ sentIn' = phase
    /\ IF ReceiverAlive /\ channel = "open"
       THEN /\ channel' = IF SendStores(phase) THEN "sent" ELSE channel
            /\ sendResult' = "Ok"
       ELSE channel' = channel /\ sendResult' = "Err"
    /\ UNCHANGED <<serdeVars, constVars, bindVars, cancel_handle, takeLog, serveResult,
                   reqVars, healthVars>>

\* the caller drops the sender without sending
DropSender ==
    /\ callerSender
    /\ callerSender' = FALSE
    /\ channel' = IF channel = "open" THEN "closed" ELSE channel
    /\ UNCHANGED <<serdeVars, constVars, bindVars, cancel_handle, sendResult, sentIn,
                   takeLog, serveResult, reqVars, healthVars>>

(***************************************************************************)
(* Server::serve: self.server.await, the router's                          *)
(* serve_with_incoming_shutdown(incoming, rx_cancellation.map(|_| ())).    *)
(* Every poll of that future looks at the shutdown signal first.           *)
(***************************************************************************)
ServeKeepsHandle_dropped_at_start(handle) == FALSE

\* serve(self) moves only self.server into the await; the other fields of
\* self, cancel_handle among them, live until serve returns
ServeKeepsHandle(handle) == handle

Serve ==
    /\ phase = "Bound"
    /\ phase' = "Running"
    /\ cancel_handle' = ServeKeepsHandle(cancel_handle)
    /\ channel' = IF cancel_handle /\ ~cancel_handle' /\ channel = "open"
                  THEN "closed" ELSE channel
    /\ UNCHANGED <<serdeVars, constVars, bindAddr, bindError, local_addr, listener,
                   callerSender, sendResult, sentIn, takeLog, serveResult,
                   reqVars, healthVars>>

ShutdownSignalled_sent_only == channel = "sent"

ShutdownSignalled_never == FALSE

ShutdownSignalled_at_once == TRUE

\* rx_cancellation.map(|_| ()): resolves on a sent value and on a closed
\* channel alike
ShutdownSignalled == channel \in {"sent", "closed"}

InFlight == {r \in Requests : rstate[r] \in {"waiting", "running"}}

\* the shutdown signal is seen: stop accepting, drain in-flight requests
ServeShutdown ==
    /\ phase = "Running"
    /\ ShutdownSignalled
    /\ phase' = "Draining"
    /\ UNCHANGED <<serdeVars, constVars, bindAddr, bindError, local_addr, listener,
                   cancelVars, serveResult, reqVars, healthVars>>

\* the drain is over: serve returns Ok(()) and the server value is dropped
ServeDrained ==
    /\ phase = "Draining"
    /\ InFlight = {}
    /\ phase' = "Done"
    /\ serveResult' = "Ok"
    /\ cancel_handle' = FALSE
    /\ UNCHANGED <<serdeVars, constVars, bindAddr, bindError, local_addr, listener,
                   channel, callerSender, sendResult, sentIn, takeLog,
                   reqVars, healthVars>>

\* a poll that found no shutdown signal polls the transport, which may fail
TransportErrorGuard == phase = "Running" /\ ~ShutdownSignalled

\* the transport reports an unrecoverable error: serve returns Err(e)
TransportError ==
    /\ TransportErrorGuard
    /\ phase' = "Failed"
    /\ serveResult' = "Err"
    /\ cancel_handle' = FALSE
    /\ UNCHANGED <<serdeVars, constVars, bindAddr, bindError, local_addr, listener,
                   channel, callerSender, sendResult, sentIn, takeLog,
                   reqVars, healthVars>>

(***************************************************************************)
(* Requests.  A request passes the stack of its connection's service; a    *)
(* Pending poll_ready leaves it waiting until a permit is released.        *)
(***************************************************************************)
Admit(r, c) ==
    LET s == SemOf(c)
        g == Gate(layers, 1, permits[s])
    IN  /\ rconn' = [rconn EXCEPT ![r] =
                        IF g.pending \/ g.acquire THEN c ELSE 0]
        /\ rstate' = [rstate EXCEPT ![r] =
                         IF g.shed THEN "rejected"
                         ELSE IF g.pending THEN "waiting"
                         ELSE "running"]
        /\ holds' = [holds EXCEPT ![r] = g.acquire]
        /\ permits' = [permits EXCEPT ![s] =
                          IF g.acquire THEN @ - 1 ELSE @]

\* a request arrives on connection c of the running server
Arrive(r, c) ==
    /\ phase = "Running"
    /\ rstate[r] = "idle"
    /\ Admit(r, c)
    /\ UNCHANGED <<serdeVars, constVars, bindVars, cancelVars, serveResult, healthVars>>

\* a waiting request is woken by a released permit and polls again
Retry(r) ==
    /\ phase \in {"Running", "Draining"}
    /\ rstate[r] = "waiting"
    /\ ~Gate(layers, 1, permits[SemOf(rconn[r])]).pending
    /\ Admit(r, rconn[r])
    /\ UNCHANGED <<serdeVars, constVars, bindVars, cancelVars, serveResult, healthVars>>

\* dropping the response future drops its OwnedSemaphorePermit
Release(r) ==
    IF holds[r]
    THEN [permits EXCEPT ![SemOf(rconn[r])] = @ + 1]
    ELSE permits

\* the inner handler answers the request
Complete(r) ==
    /\ phase \in {"Running", "Draining"}
    /\ rstate[r] = "running"
    /\ rstate' = [rstate EXCEPT ![r] = "served"]
    /\ permits' = Release(r)
    /\ holds' = [holds EXCEPT ![r] = FALSE]
    /\ rconn' = [rconn EXCEPT ![r] = 0]
    /\ UNCHANGED <<serdeVars, constVars, bindVars, cancelVars, serveResult, healthVars>>

(***************************************************************************)
(* Health reporter handles.                                                *)
(***************************************************************************)
\* ServerBuilder::health_reporter
BuilderHealthReporter ==
    /\ phase = "Built"
    /\ Len(handles) < MaxHandles
    /\ handles' = Append(handles,
                         [h |-> HealthReporter_clone(builder_reporter),
                          from |-> "builder"])
    /\ UNCHANGED <<serdeVars, constVars, bindVars, cancelVars, serveResult, reqVars,
                   stores, builder_reporter, server_reporter, health_service,
                   lastSet, lastCheck>>

\* Server::health_reporter
ServerHealthReporter ==
    /\ phase = "Bound"
    /\ Len(handles) < MaxHandles
    /\ handles' = Append(handles,
                         [h |-> HealthReporter_clone(server_reporter),
                          from |-> "server"])
    /\ UNCHANGED <<serdeVars, constVars, bindVars, cancelVars, serveResult, reqVars,
                   stores, builder_reporter, server_reporter, health_service,
                   lastSet, lastCheck>>

\* the application clones a handle it holds
CloneHandle(i) ==
    /\ i \in 1..Len(handles)
    /\ Len(handles) < MaxHandles
    /\ handles' = Append(handles,
                         [h |-> HealthReporter_clone(handles[i].h),
                          from |-> "clone"])
    /\ UNCHANGED <<serdeVars, constVars, bindVars, cancelVars, serveResult, reqVars,
                   stores, builder_reporter, server_reporter, health_service,
                   lastSet, lastCheck>>

\* set_serving / set_not_serving through handle i
SetStatus(i, name, status) ==
    /\ i \in 1..Len(handles)
    /\ stores' = [stores EXCEPT ![handles[i].h.store][name] = status]
    /\ lastSet' = [status |-> [lastSet.status EXCEPT ![name] = status],
                    by |-> handles[i].from]
    /\ UNCHANGED <<serdeVars, constVars, bindVars, cancelVars, serveResult, reqVars,
                   builder_reporter, server_reporter, health_service,
                   handles, lastCheck>>

\* Health.Check(name) answered by the registered health service
HealthCheck(name) ==
    /\ phase = "Running"
    /\ lastCheck' = [name |-> name,
                     status |-> CheckAnswer(stores[health_service.store][name]),
                     expect |-> CheckAnswer(lastSet.status[name])]
    /\ UNCHANGED <<serdeVars, constVars, bindVars, cancelVars, serveResult, reqVars,
                   stores, builder_reporter, server_reporter, health_service,
                   handles, lastSet>>

(***************************************************************************)
(* Specifications.                                                         *)
(***************************************************************************)
BindStep == \E os \in OsAnswers : Bind(os)

ArriveStep == \E r \in Requests, c \in Conns : Arrive(r, c)

RetryStep == \E r \in Requests : Retry(r)

CompleteStep == \E r \in Requests : Complete(r)

CloneStep == \E i \in 1..MaxHandles : CloneHandle(i)

SetStatusStep ==
    \E i \in 1..MaxHandles, name \in Names,
       status \in {"Serving", "NotServing"} : SetStatus(i, name, status)

HealthCheckStep == \E name \in Names : HealthCheck(name)

Next ==
    \/ BindStep
    \/ take_cancel_handle
    \/ SendCancel
    \/ DropSender
    \/ Serve
    \/ ServeShutdown
    \/ ServeDrained
    \/ TransportError
    \/ ArriveStep
    \/ RetryStep
    \/ CompleteStep

\* one well-formed address per family; port 0 and every other shape of
\* address are covered by SpecBind
ServeAddresses ==
    {<<Seg(f, 0), Seg("Tcp", 1), Seg("Http", 0)>> : f \in {"Dns", "Ip4", "Ip6"}}
        \cup {<<Seg("Unix", 0), Seg("Http", 0)>>}

InitServe == Init /\ bindAddr \in ServeAddresses /\ cfg_unix

Spec == InitServe /\ [][Next]_vars

\* the executor keeps polling the serving future and the request handlers
Fairness ==
    /\ WF_vars(ServeShutdown)
    /\ WF_vars(ServeDrained)
    /\ WF_vars(RetryStep)
    /\ WF_vars(CompleteStep)

FairSpec == Spec /\ Fairness

InitHealth == InitServe /\ config = DefaultConfig

NextHealth ==
    \/ BindStep
    \/ Serve
    \/ BuilderHealthReporter
    \/ ServerHealthReporter
    \/ CloneStep
    \/ SetStatusStep
    \/ HealthCheckStep

SpecHealth == InitHealth /\ [][NextHealth]_vars

InitBind == Init /\ config = DefaultConfig

NextBind ==
    \/ BindStep
    \/ take_cancel_handle

SpecBind == InitBind /\ [][NextBind]_vars

InitSerde ==
    /\ ServerInit
    /\ config = DefaultConfig
    /\ cfg_unix
    /\ bindAddr = <<Seg("Ip4", 0), Seg("Tcp", 0), Seg("Http", 0)>>
    /\ SerdeInputs

NextSerde ==
    \/ Serialize
    \/ Deserialize

SpecSerde == InitSerde /\ [][NextSerde]_vars

(***************************************************************************)
(* Properties.                                                             *)
(***************************************************************************)
TcpFamilies == {"Dns", "Ip4", "Ip6"}

Supported(seg) == seg.p \in TcpFamilies \/ (seg.p = "Unix" /\ cfg_unix)

Running(r) == rstate[r] = "running"

\* C1: once the caller's send on the handle from take_cancel_handle has
\* succeeded and serve is running, serve eventually returns, and it returns
\* Ok, never a transport error, also when requests were served before.
C1_CancelCompletesServe ==
    /\ (phase \in {"Running", "Draining"} /\ sendResult = "Ok")
           ~> (serveResult = "Ok")
    /\ [](sendResult = "Ok" => serveResult # "Err")

C1_Witness ==
    /\ serveResult = "Ok"
    /\ sendResult = "Ok"
    /\ takeLog # <<>>
    /\ \E r \in Requests : rstate[r] = "served"

\* C2: the first take_cancel_handle returns the sender and every later call
\* returns None, so at most one sender is ever handed out.
C2_TakeOnce ==
    /\ \A i \in 1..Len(takeLog) : (takeLog[i] = "Some") <=> (i = 1)
    /\ Cardinality({i \in 1..Len(takeLog) : takeLog[i] = "Some"}) <= 1
    /\ callerSender => (takeLog # <<>> /\ ~cancel_handle)

C2_Witness ==
    /\ Len(takeLog) = MaxTakes
    /\ takeLog[1] = "Some"
    /\ takeLog[MaxTakes] = "None"

\* C3: bind dispatches on the first segment only: an empty address fails
\* with "malformed addr", an unsupported first segment fails with
\* "unsupported protocol <segment>", only Dns, Ip4, Ip6 and (cfg(unix)) Unix
\* reach a listener, and a failed bind returns no server and no sender.
C3_BindDispatch ==
    phase # "Built" =>
        /\ Len(bindAddr) = 0 =>
               /\ phase = "BindFailed"
               /\ bindError = [msg |-> "malformed addr", seg |-> NoSeg]
        /\ (Len(bindAddr) > 0 /\ ~Supported(bindAddr[1])) =>
               /\ phase = "BindFailed"
               /\ bindError = [msg |-> "unsupported protocol",
                               seg |-> bindAddr[1]]
        /\ (Len(bindAddr) > 0 /\ Supported(bindAddr[1])) =>
               /\ bindError.msg \notin {"malformed addr",
                                        "unsupported protocol"}
               /\ phase = "Bound" =>
                      listener.kind = IF bindAddr[1].p = "Unix"
                                      THEN "unix" ELSE "tcp"
        /\ listener # NoListener =>
               (Len(bindAddr) > 0 /\ Supported(bindAddr[1]))
        /\ phase = "BindFailed" =>
               /\ ~cancel_handle
               /\ ~callerSender
               /\ channel = "none"
               /\ takeLog = <<>>

C3_Witness ==
    /\ phase = "BindFailed"
    /\ Len(bindAddr) = 3
    /\ bindAddr[1] = Seg("Udp", 0)
    /\ bindAddr[2].p = "Tcp"
    /\ bindAddr[3].p = "Http"
    /\ bindError = [msg |-> "unsupported protocol", seg |-> Seg("Udp", 0)]

\* C4: for Dns, Ip4 and Ip6, bind fails when the address does not end in
\* the http marker, and it fails before any listener is opened.
C4_MissingHttpFails ==
    (/\ phase # "Built"
     /\ Len(bindAddr) > 0
     /\ bindAddr[1].p \in TcpFamilies
     /\ ~IsHttpMarker(bindAddr[Len(bindAddr)])) =>
        /\ phase = "BindFailed"
        /\ listener = NoListener

C4_Witness ==
    /\ phase = "BindFailed"
    /\ bindAddr = <<Seg("Dns", 0), Seg("Tcp", 0)>>
    /\ listener = NoListener

\* C5: after a successful bind of a tcp family address, local_addr is the
\* input with only the Tcp segment at index 1 set to the listener's port:
\* equal to the input for a nonzero requested port, a nonzero assigned port
\* for port 0.
C5_LocalAddr ==
    (phase = "Bound" /\ bindAddr[1].p \in TcpFamilies) =>
        /\ Len(local_addr) = Len(bindAddr)
        /\ \A i \in 1..Len(bindAddr) : i # 2 => local_addr[i] = bindAddr[i]
        /\ local_addr[2].p = "Tcp"
        /\ local_addr[2].v = listener.port
        /\ local_addr[2].v # 0
        /\ bindAddr[2].v # 0 => local_addr = bindAddr

C5_Witness ==
    /\ phase = "Bound"
    /\ bindAddr = <<Seg("Ip4", 0), Seg("Tcp", 0), Seg("Http", 0)>>
    /\ local_addr = <<Seg("Ip4", 0), Seg("Tcp", 2), Seg("Http", 0)>>

BothLayers == config.global_concurrency_limit.some /\ LoadShedOn(config)

\* C6: with global_concurrency_limit = 1 and load_shed = true, a request
\* that arrives while another holds the only permit is rejected at once
\* and never left waiting for the permit.
C6_OverlapIsShed ==
    (config.global_concurrency_limit = Some(1) /\ LoadShedOn(config)) =>
        \A r1, r2 \in Requests :
            ~(Running(r1) /\ holds[r1] /\ rstate[r2] = "waiting")

\* C7: in the stack built by from_config the load-shed layer wraps the
\* global concurrency-limit layer: a request meets load-shed first.
C7_LoadShedOutermost ==
    (phase = "Running" /\ BothLayers) =>
        \E i, j \in 1..Len(layers) :
            /\ i < j
            /\ layers[i] = "LoadShed"
            /\ layers[j] = "GlobalConcurrencyLimit"

Held == {r \in Requests : holds[r]}

\* C8: with global_concurrency_limit = L at most L requests run in the
\* inner handler over all connections; a running request holds a permit of
\* the one shared semaphore, a finished one holds none, and permits held
\* plus permits free is L.
C8_GlobalLimit ==
    config.global_concurrency_limit.some =>
        LET L == config.global_concurrency_limit.v IN
        /\ Cardinality({r \in Requests : Running(r)}) <= L
        /\ \A r \in Requests : Running(r) <=> holds[r]
        /\ permits[1] + Cardinality(Held) = L

C8_Witness ==
    /\ config.global_concurrency_limit = Some(1)
    /\ \E r1, r2 \in Requests :
           /\ Running(r1)
           /\ rstate[r2] = "waiting"
           /\ rconn[r1] # rconn[r2]
    /\ permits[1] = 0

\* C9 as stated: serve returns Ok only when the cancellation signal was
\* delivered and Err only when the transport failed; it completes in no
\* other situation.
C9_OnlySignalOrError ==
    /\ serveResult = "Ok" => (phase = "Done" /\ channel = "sent")
    /\ serveResult = "Err" => phase = "Failed"
    /\ phase \in {"Done", "Failed"} => serveResult # "none"

\* C9 amended: serve returns Ok only when the cancellation signal was
\* delivered or the sender was dropped without sending, and Err only when
\* the transport failed; it completes in no other situation.
C9_OnlyShutdownOrError ==
    /\ serveResult = "Ok" => (phase = "Done" /\ channel \in {"sent", "closed"})
    /\ serveResult = "Err" => phase = "Failed"
    /\ phase \in {"Done", "Failed"} => serveResult # "none"
    /\ phase \in {"Built", "BindFailed", "Bound", "Running", "Draining"} =>
           serveResult = "none"

C9_Witness ==
    /\ serveResult = "Ok"
    /\ channel = "closed"
    /\ sendResult = "none"

\* C10: the builder's reporter, the server's reporter and every clone share
\* the status map of the registered health service: a status set through
\* any handle is what a later health check answers.
C10_SharedHealthState ==
    /\ builder_reporter.store = health_service.store
    /\ server_reporter.store = health_service.store
    /\ \A i \in 1..Len(handles) : handles[i].h.store = health_service.store
    /\ \A n \in Names : stores[health_service.store][n] = lastSet.status[n]
    /\ lastCheck.status = lastCheck.expect

C10_Witness ==
    /\ phase = "Running"
    /\ lastSet.by = "clone"
    /\ \E i \in 1..Len(handles) : handles[i].from = "builder"
    /\ lastCheck = [name |-> "svc", status |-> "NotServing",
                    expect |-> "NotServing"]

Serving == phase \in {"Running", "Draining"}

\* C16: layers are present only when configured: without load_shed no
\* request is ever rejected, with a global limit the excess requests wait
\* and are served once a permit is released (unless the transport fails
\* first); without a global limit no request waits, is rejected or holds a
\* permit.
C16_LayersOnlyWhenConfigured ==
    /\ [](~LoadShedOn(config) =>
              \A r \in Requests : rstate[r] # "rejected")
    /\ [](~config.global_concurrency_limit.some =>
              \A r \in Requests :
                  rstate[r] \notin {"waiting", "rejected"} /\ ~holds[r])
    /\ (~LoadShedOn(config) /\ \E r \in Requests : rstate[r] = "waiting")
           ~> (\/ \A r \in Requests : rstate[r] \in {"idle", "served"}
               \/ phase = "Failed")

C16_Witness ==
    /\ config = [global_concurrency_limit |-> Some(1),
                 load_shed |-> Some(FALSE)]
    /\ \E r1, r2 \in Requests :
           /\ rstate[r1] = "served"
           /\ rstate[r2] = "waiting"
           /\ permits[1] = 1

\* C17: if the sender is taken and dropped without sending, the serving
\* future treats the closed channel like a delivered signal: serve shuts
\* down and returns Ok.
C17_DroppedSenderShutsDown ==
    /\ (Serving /\ channel = "closed") ~> (serveResult = "Ok")
    /\ [][(Serving /\ channel = "closed") => serveResult' # "Err"]_vars

C17_Witness ==
    /\ serveResult = "Ok"
    /\ channel = "closed"
    /\ sentIn = "none"
    /\ takeLog # <<>>
    /\ takeLog[1] = "Some"
    /\ ~callerSender

\* C18: a signal sent before serve is started is not lost: serve, once
\* started, still completes, and with Ok.
C18_EarlySignalNotLost ==
    /\ (Serving /\ sentIn = "Bound") ~> (serveResult = "Ok")
    /\ [](sentIn = "Bound" => serveResult # "Err")

C18_Witness ==
    /\ sentIn = "Bound"
    /\ sendResult = "Ok"
    /\ serveResult = "Ok"

\* C19: if take_cancel_handle was never called before serve, the sender
\* stays in the server value for as long as serve runs, no cancellation is
\* delivered, and serve completes only with a transport error.
C19_UntakenHandleNeverCancels ==
    (takeLog = <<>> /\ phase \in {"Running", "Draining", "Done", "Failed"}) =>
        /\ phase = "Running" => (cancel_handle /\ channel = "open")
        /\ channel = "open"
        /\ phase \notin {"Draining", "Done"}
        /\ serveResult # "Ok"
        /\ phase = "Failed" <=> serveResult = "Err"
        /\ sendResult = "none"
        /\ ~callerSender

C19_Witness ==
    /\ takeLog = <<>>
    /\ phase = "Failed"
    /\ serveResult = "Err"
    /\ \E r \in Requests : rstate[r] = "served"


(***************************************************************************)
(* Properties of the serde_as adaptors.                                    *)
(***************************************************************************)
\* the codec a Readable adaptor has to delegate to
Delegate(human) == IF human THEN "H" ELSE "R"

\* C11: Readable<H, R> delegates to H exactly when the serializer or the
\* deserializer is human-readable and to R otherwise, in serialize_as and in
\* deserialize_as alike.
C11_ReadableDelegates ==
    Kind(sAdaptor) = "Readable" =>
        /\ (sMode = "roundtrip" /\ sPc \in {"token", "done"}) =>
               /\ sBy = Delegate(sHuman)
               /\ sTok.kind = IF sHuman THEN "str" ELSE "bytes"
        /\ sPc = "done" => sOut.by = Delegate(sHuman)

C11_Witness ==
    /\ sAdaptor = "Readable<HexObjectId, TryFromVec<Bytes>>"
    /\ ~sHuman
    /\ sMode = "roundtrip" /\ sPc = "done"
    /\ sBy = "R" /\ sTok.kind = "bytes"
    /\ sOut.by = "R" /\ sOut.ok

AllHex(str) == \A i \in 1..Len(str) : IsHexChar(str[i])

\* the digits of a string: what follows the "0x" when there is one
Digits(str) == IF StartsWith0x(str) THEN SubSeq(str, 3, Len(str)) ELSE str

RECURSIVE HexToNat(_)
HexToNat(digits) ==
    IF digits = <<>>
    THEN 0
    ELSE 16 * HexToNat(SubSeq(digits, 1, Len(digits) - 1))
             + NibbleOf(digits[Len(digits)])

RECURSIVE BytesToNat(_)
BytesToNat(bytes) ==
    IF bytes = <<>>
    THEN 0
    ELSE 256 * BytesToNat(SubSeq(bytes, 1, Len(bytes) - 1))
             + bytes[Len(bytes)]

HexObjectIdDecoded ==
    /\ sAdaptor = "HexObjectId"
    /\ sMode = "decode" /\ sPc = "done"
    /\ sTok.kind = "str"

\* what HexObjectId decodes from the same digits written after a "0x"
WithPrefix(str) ==
    deserialize_as("HexObjectId", StrTok(<<"0", "x">> \o str), sHuman, 0)

\* C13, as stated: "0x" + digits and the bare digits decode alike, and
\* odd-length, non-hex or wrong-length digits fail.
C13_BothFormsAlike ==
    HexObjectIdDecoded =>
        LET str == sTok.str
            digits == Digits(str)
        IN /\ ~StartsWith0x(str) =>
                  /\ WithPrefix(str).ok = sOut.ok
                  /\ WithPrefix(str).val = sOut.val
           /\ (\/ Len(digits) % 2 # 0
               \/ ~AllHex(digits)
               \/ Len(digits) # 2 * AddrLen) => ~sOut.ok

\* C13, amended: bare digits decode exactly when they are 2 * LENGTH hex
\* digits; digits after "0x" decode exactly when they are at most 2 * LENGTH
\* hex digits, shorter ones being padded with leading zeros; the address is
\* the number the digits write, so full-length digits give the same address
\* in both forms; a failure is an error and no value.
C13_HexObjectIdDecode ==
    HexObjectIdDecoded =>
        LET str == sTok.str
            digits == Digits(str)
        IN /\ sOut.ok <=>
                  /\ AllHex(digits)
                  /\ IF StartsWith0x(str)
                     THEN Len(digits) <= 2 * AddrLen
                     ELSE Len(digits) = 2 * AddrLen
           /\ sOut.ok =>
                  /\ Len(sOut.val) = AddrLen
                  /\ BytesToNat(sOut.val) = HexToNat(digits)
           /\ (~StartsWith0x(str) /\ Len(str) = 2 * AddrLen) =>
                  /\ WithPrefix(str).ok = sOut.ok
                  /\ WithPrefix(str).val = sOut.val
           /\ ~sOut.ok => (sOut.val = <<>> /\ sOut.err.text # "")

C13_Witness ==
    /\ HexObjectIdDecoded
    /\ sTok.str = <<"0", "x", "a">>
    /\ sOut.ok
    /\ BytesToNat(sOut.val) = 10

\* C14: ToArray<V> decoding into [u8; N] fails whenever V decoded a byte
\* sequence of a length other than N, and gives exactly those bytes when the
\* length is N.
C14_ToArrayLength ==
    (Kind(sAdaptor) = "ToArray" /\ sPc = "done") =>
        LET v == deserialize_as(First(sAdaptor), sTok, sHuman, sN) IN
        IF ~v.ok
        THEN ~sOut.ok
        ELSE IF Len(v.val) # sN
        THEN ~sOut.ok /\ sOut.val = <<>>
        ELSE sOut.ok /\ sOut.val = v.val

C14_Witness ==
    /\ sAdaptor = "ToArray<Bytes>"
    /\ sMode = "decode" /\ sPc = "done"
    /\ sN = 0
    /\ Len(sTok.bytes) = 1
    /\ ~sOut.ok
    /\ sOut.err.len = 1 /\ sOut.err.n = 0

\* the adaptor that does the decoding once Readable has delegated
Reached(a, human) ==
    IF Kind(a) = "Readable"
    THEN IF human THEN First(a) ELSE Second(a)
    ELSE a

DecodeFailed == sPc = "done" /\ ~sOut.ok

====
